---- MODULE Spec2Model ----
(***************************************************************************)
(* Model of the S3 transfer benchmarking harness:                          *)
(*   transfer_manager.py  TransferCallback and the upload/download         *)
(*                        strategies of FileUploadAPI / FileDownloadAPI    *)
(*   client.py            generate_files, get_files_from_directory and the *)
(*                        serial / thread-per-file / thread-pool drivers   *)
(*   file_generator.py    generate_big_random_bin_file                     *)
(* Three specifications share the module:                                  *)
(*   TrackerSpec  one TransferCallback called by concurrent threads        *)
(*   Spec         main(): corpus population, then strategy calls           *)
(*   DriverSpec   the three execution modes over a populated corpus        *)
(***************************************************************************)
EXTENDS Integers, Sequences, FiniteSets, TLC

VARIABLES
    \* ---- TransferCallback (transfer_manager.py:13-48)
    target_size,        \* self._target_size
    total_transferred,  \* self._total_transferred
    thread_info,        \* self.thread_info : thread.ident -> bytes
    lock,               \* self._lock : 0 when free, else the holder
    tpc,                \* position of each thread inside __call__
    arg,                \* bytes_transferred of the call in progress
    tmp,                \* value of _total_transferred read by line 38
    raised,             \* the thread's last call ended with an exception
    stdout,             \* last progress line written, <<>> when none
    sent,               \* history: sum of the amounts each thread passed
    ncalls,             \* history: number of calls each thread made
    \* ---- main, corpus and strategies (client.py:19-33,119-159)
    main_pc, FILES, disk, size_mb, ratio,
    xfer,               \* the strategy call in progress (a record) or NoXfer
    \* ---- drivers (client.py:42-116)
    mode, direction, threads_no, dpc, idx, fstat, invoked, pool_next,
    worker, number_left, pool_success, now, global_start_time,
    global_end_time, start_time, elapsed_sum, printed_total

trackerVars == <<target_size, total_transferred, thread_info, lock, tpc, arg,
                 tmp, raised, stdout, sent, ncalls>>
mainVars == <<main_pc, FILES, disk, size_mb, ratio, xfer>>
driverVars == <<mode, direction, threads_no, dpc, idx, fstat, invoked,
                pool_next, worker, number_left, pool_success, now,
                global_start_time, global_end_time, start_time, elapsed_sum,
                printed_total>>
vars == <<trackerVars, mainVars, driverVars>>

MB == 1024 * 1024

(***************************************************************************)
(* Bounds                                                                  *)
(***************************************************************************)
NThreads == 2
MaxCalls == 3
Threads == 1..NThreads
Amounts == {0, 1, MB}
TargetSizes == {0, 1, 2}

RECURSIVE SumOver(_, _)
SumOver(f, S) ==
    IF S = {} THEN 0
    ELSE LET x == CHOOSE y \in S : TRUE IN f[x] + SumOver(f, S \ {x})

SumValues(f) == SumOver(f, DOMAIN f)

(***************************************************************************)
(* TransferCallback                                                        *)
(***************************************************************************)
NoInfo == [t \in {} |-> 0]

TrackerInit ==
    /\ target_size \in TargetSizes
    /\ total_transferred = 0
    /\ thread_info = NoInfo
    /\ lock = 0
    /\ tpc = [t \in Threads |-> "idle"]
    /\ arg = [t \in Threads |-> 0]
    /\ tmp = [t \in Threads |-> 0]
    /\ raised = [t \in Threads |-> FALSE]
    /\ stdout = <<>>
    /\ sent = [t \in Threads |-> 0]
    /\ ncalls = [t \in Threads |-> 0]

\* lines 39-42: first insertion of a key, or += on an existing one
RecordThreadInfoOverwrite(info, ident, bytes_transferred) ==
    [k \in DOMAIN info \cup {ident} |->
        IF k = ident THEN bytes_transferred ELSE info[k]]

RecordThreadInfo(info, ident, bytes_transferred) ==
    IF ident \notin DOMAIN info
    THEN [k \in DOMAIN info \cup {ident} |->
            IF k = ident THEN bytes_transferred ELSE info[k]]
    ELSE [info EXCEPT ![ident] = @ + bytes_transferred]

\* line 37: `with self._lock` blocks until the lock is free
LockIgnored(t) == TRUE

LockAvailable(t) == lock = 0

\* lines 44-47: target and the percentage of the progress line; the division
\* raises ZeroDivisionError when target is 0
Target == target_size * MB

PercentRaises == Target = 0

ProgressLine(total) == <<total, Target, (total * 100) \div Target>>

\* the transfer manager calls the callback from thread t (line 28)
Call(t, b) ==
    /\ tpc[t] = "idle"
    /\ SumOver(ncalls, Threads) < MaxCalls
    /\ tpc' = [tpc EXCEPT ![t] = "acquire"]
    /\ arg' = [arg EXCEPT ![t] = b]
    /\ raised' = [raised EXCEPT ![t] = FALSE]
    /\ sent' = [sent EXCEPT ![t] = @ + b]
    /\ ncalls' = [ncalls EXCEPT ![t] = @ + 1]
    /\ UNCHANGED <<target_size, total_transferred, thread_info, lock, tmp, stdout>>
    /\ UNCHANGED <<mainVars, driverVars>>

\* line 37
Acquire(t) ==
    /\ tpc[t] = "acquire"
    /\ LockAvailable(t)
    /\ lock' = t
    /\ tpc' = [tpc EXCEPT ![t] = "read_total"]
    /\ UNCHANGED <<target_size, total_transferred, thread_info, arg, tmp,
                   raised, stdout, sent, ncalls>>
    /\ UNCHANGED <<mainVars, driverVars>>

\* line 38, the load of self._total_transferred
ReadTotal(t) ==
    /\ tpc[t] = "read_total"
    /\ tmp' = [tmp EXCEPT ![t] = total_transferred]
    /\ tpc' = [tpc EXCEPT ![t] = "write_total"]
    /\ UNCHANGED <<target_size, total_transferred, thread_info, lock, arg,
                   raised, stdout, sent, ncalls>>
    /\ UNCHANGED <<mainVars, driverVars>>

\* line 38, the store of the sum
WriteTotal(t) ==
    /\ tpc[t] = "write_total"
    /\ total_transferred' = tmp[t] + arg[t]
    /\ tpc' = [tpc EXCEPT ![t] = "info"]
    /\ UNCHANGED <<target_size, thread_info, lock, arg, tmp, raised, stdout,
                   sent, ncalls>>
    /\ UNCHANGED <<mainVars, driverVars>>

\* lines 39-42
UpdateInfo(t) ==
    /\ tpc[t] = "info"
    /\ thread_info' = RecordThreadInfo(thread_info, t, arg[t])
    /\ tpc' = [tpc EXCEPT ![t] = "progress"]
    /\ UNCHANGED <<target_size, total_transferred, lock, arg, tmp, raised,
                   stdout, sent, ncalls>>
    /\ UNCHANGED <<mainVars, driverVars>>

\* lines 44-48
Progress(t) ==
    /\ tpc[t] = "progress"
    /\ IF PercentRaises
       THEN /\ raised' = [raised EXCEPT ![t] = TRUE]
            /\ UNCHANGED stdout
       ELSE /\ stdout' = ProgressLine(total_transferred)
            /\ UNCHANGED raised
    /\ tpc' = [tpc EXCEPT ![t] = "exit"]
    /\ UNCHANGED <<target_size, total_transferred, thread_info, lock, arg,
                   tmp, sent, ncalls>>
    /\ UNCHANGED <<mainVars, driverVars>>

\* the end of the with block releases the lock, on return and on exception
Release(t) ==
    /\ tpc[t] = "exit"
    /\ lock' = 0
    /\ tpc' = [tpc EXCEPT ![t] = "idle"]
    /\ UNCHANGED <<target_size, total_transferred, thread_info, arg, tmp,
                   raised, stdout, sent, ncalls>>
    /\ UNCHANGED <<mainVars, driverVars>>

TrackerNext ==
    \/ \E t \in Threads, b \in Amounts : Call(t, b)
    \/ \E t \in Threads : Acquire(t)
    \/ \E t \in Threads : ReadTotal(t)
    \/ \E t \in Threads : WriteTotal(t)
    \/ \E t \in Threads : UpdateInfo(t)
    \/ \E t \in Threads : Progress(t)
    \/ \E t \in Threads : Release(t)


(***************************************************************************)
(* main(): the corpus FILES and the strategies                             *)
(***************************************************************************)
MaxDirFiles == 2
DirSizes == {0, 1, 2}
Chunks == {1, 2}
Workers == {1, 2}

UploadStrategies ==
    {"upload_with_default_configuration", "upload_with_transfer_acceleration",
     "upload_with_high_threshold", "upload_with_multipart_chunksize"}

DownloadStrategies ==
    {"download_with_default_configuration", "download_with_high_threshold",
     "download_with_single_thread", "download_with_multiple_threads",
     "download_with_chunksize", "download_with_transfer_acceleration"}

Strategies == UploadStrategies \cup DownloadStrategies

HighThresholdStrategies ==
    {"upload_with_high_threshold", "download_with_high_threshold"}

\* a directory listing: files 1..n with their lengths in bytes
Directories ==
    UNION {[{<<"dir", i>> : i \in 1..n} -> DirSizes] : n \in 0..MaxDirFiles}

\* FILES is a dict: assignment to an existing key replaces its value in
\* place, assignment to a new key appends the entry
DictKeys(d) == {d[i].key : i \in 1..Len(d)}

DictSet(d, k, v) ==
    IF k \in DictKeys(d)
    THEN [i \in 1..Len(d) |-> IF d[i].key = k THEN [key |-> k, value |-> v] ELSE d[i]]
    ELSE Append(d, [key |-> k, value |-> v])

\* client.py:16-17 and 24: the path of the generated file of size_mb MB
GeneratedName(s) == <<"gen", s>>

\* file_generator.py:1-10: the file is created or truncated and size bytes
\* are written to it
WriteFile(fs, filename, size) ==
    [k \in DOMAIN fs \cup {filename} |-> IF k = filename THEN size ELSE fs[k]]

\* client.py:33: every regular file of the directory with os.path.getsize
RECURSIVE ListDirectory(_, _)
ListDirectory(fs, i) ==
    IF <<"dir", i>> \notin DOMAIN fs THEN <<>>
    ELSE <<[key |-> <<"dir", i>>, value |-> fs[<<"dir", i>>]]>>
         \o ListDirectory(fs, i + 1)

NoXfer ==
    [status |-> "none", strategy |-> "none", file |-> 0, target |-> 0,
     config |-> NoInfo, wired |-> FALSE, total |-> 0, info |-> NoInfo,
     reported |-> 0]

MainInit ==
    /\ main_pc = "start"
    /\ FILES = <<>>
    /\ disk \in Directories
    /\ size_mb = 0
    /\ ratio = 0
    /\ xfer = NoXfer

\* client.py:121 and 19-22
CallGenerateFiles ==
    /\ main_pc = "start"
    /\ size_mb' = 1
    /\ ratio' = 2
    /\ main_pc' = "gen_while"
    /\ UNCHANGED <<FILES, disk, xfer>>
    /\ UNCHANGED <<trackerVars, driverVars>>

\* client.py:23, and 27-28, which follow the loop
LoopTest(s) == s <= 128

GenWhile ==
    /\ main_pc = "gen_while"
    /\ IF LoopTest(size_mb)
       THEN /\ main_pc' = "gen_write"
            /\ UNCHANGED <<size_mb, ratio>>
       ELSE /\ size_mb' = ratio * size_mb
            /\ ratio' = ratio * 2
            /\ main_pc' = "ready"
    /\ UNCHANGED <<FILES, disk, xfer>>
    /\ UNCHANGED <<trackerVars, driverVars>>

\* client.py:24-25
GenWrite ==
    /\ main_pc = "gen_write"
    /\ disk' = WriteFile(disk, GeneratedName(size_mb), size_mb * MB)
    /\ main_pc' = "gen_store"
    /\ UNCHANGED <<FILES, size_mb, ratio, xfer>>
    /\ UNCHANGED <<trackerVars, driverVars>>

\* client.py:26
GenStore ==
    /\ main_pc = "gen_store"
    /\ FILES' = DictSet(FILES, GeneratedName(size_mb), size_mb)
    /\ main_pc' = "gen_while"
    /\ UNCHANGED <<disk, size_mb, ratio, xfer>>
    /\ UNCHANGED <<trackerVars, driverVars>>

\* client.py:120 and 31-33
GetFilesFromDirectory ==
    /\ main_pc = "start"
    /\ FILES' = ListDirectory(disk, 1)
    /\ main_pc' = "ready"
    /\ UNCHANGED <<disk, size_mb, ratio, xfer>>
    /\ UNCHANGED <<trackerVars, driverVars>>

\* transfer_manager.py: the Config each strategy builds
Config(s, file_size_mb) ==
    CASE s = "upload_with_high_threshold" ->
            [multipart_threshold |-> file_size_mb * 2 * MB]
      [] s = "download_with_high_threshold" ->
            [multipart_threshold |-> file_size_mb * 64 * MB]
      [] s \in {"upload_with_multipart_chunksize", "download_with_chunksize"} ->
            [multipart_chunksize |-> 1 * MB, max_concurrency |-> 12,
             use_threads |-> 1]
      [] s = "download_with_single_thread" -> [use_threads |-> 0]
      [] s = "download_with_multiple_threads" ->
            [max_concurrency |-> 8, use_threads |-> 1]
      [] s = "download_with_transfer_acceleration" ->
            [multipart_chunksize |-> 1 * MB]
      [] OTHER -> NoInfo

\* whether the strategy passes its TransferCallback to the client
CallbackWired(s) == s \in UploadStrategies

\* a strategy is called for corpus entry i: it creates the tracker and the
\* config and enters the client's transfer
StartStrategy(s, i) ==
    /\ main_pc = "ready"
    /\ xfer.status # "running"
    /\ i \in 1..Len(FILES)
    /\ xfer' = [status |-> "running", strategy |-> s, file |-> i,
                target |-> FILES[i].value,
                config |-> Config(s, FILES[i].value),
                wired |-> CallbackWired(s), total |-> 0, info |-> NoInfo,
                reported |-> 0]
    /\ UNCHANGED <<main_pc, FILES, disk, size_mb, ratio>>
    /\ UNCHANGED <<trackerVars, driverVars>>

ActualSize(x) == disk[FILES[x.file].key]

\* the client reports b more bytes from worker w; with a callback supplied it
\* runs TransferCallback.__call__ (lines 38-47), whose division raises on a
\* target of 0, and the transfer then fails
ClientNotify(b, w) ==
    /\ xfer.status = "running"
    /\ xfer.reported + b <= ActualSize(xfer)
    /\ IF xfer.wired
       THEN xfer' = [xfer EXCEPT !.reported = @ + b,
                                 !.total = @ + b,
                                 !.info = RecordThreadInfo(@, w, b),
                                 !.status = IF xfer.target * MB = 0
                                            THEN "raised" ELSE @]
       ELSE xfer' = [xfer EXCEPT !.reported = @ + b]
    /\ UNCHANGED <<main_pc, FILES, disk, size_mb, ratio>>
    /\ UNCHANGED <<trackerVars, driverVars>>

\* the transfer completes and the strategy returns transfer_callback.thread_info
StrategyReturns ==
    /\ xfer.status = "running"
    /\ xfer.reported = ActualSize(xfer)
    /\ xfer' = [xfer EXCEPT !.status = "returned"]
    /\ UNCHANGED <<main_pc, FILES, disk, size_mb, ratio>>
    /\ UNCHANGED <<trackerVars, driverVars>>

\* the client raises (network, auth, ...) and the strategy propagates it
StrategyRaises ==
    /\ xfer.status = "running"
    /\ xfer' = [xfer EXCEPT !.status = "raised"]
    /\ UNCHANGED <<main_pc, FILES, disk, size_mb, ratio>>
    /\ UNCHANGED <<trackerVars, driverVars>>

MainNext ==
    \/ CallGenerateFiles
    \/ GenWhile
    \/ GenWrite
    \/ GenStore
    \/ GetFilesFromDirectory
    \/ \E s \in Strategies, i \in 1..MaxDirFiles : StartStrategy(s, i)
    \/ \E b \in Chunks, w \in Workers : ClientNotify(b, w)
    \/ StrategyReturns
    \/ StrategyRaises


(***************************************************************************)
(* The drivers: serial, one thread per file, thread pool                   *)
(***************************************************************************)
MaxFiles == 5
MaxPool == 2
MaxClock == 3

Modes == {"serial", "thread", "pool"}
Directions == {"upload", "download"}

NFiles == Len(FILES)

Finished(i) == fstat[i] \in {"returned", "raised"}

\* multiprocessing.pool.Pool._map_async as called by starmap (client.py:59):
\* chunksize, extra = divmod(len(iterable), len(pool) * 4), plus one if extra
ChunkSize(n, processes) ==
    IF n = 0 THEN 0
    ELSE (n \div (processes * 4)) + (IF n % (processes * 4) # 0 THEN 1 ELSE 0)

NumChunks(n, processes) ==
    IF n = 0 THEN 0
    ELSE LET c == ChunkSize(n, processes)
         IN (n \div c) + (IF n % c # 0 THEN 1 ELSE 0)

ChunkOf(i) == ((i - 1) \div ChunkSize(NFiles, threads_no)) + 1
FirstOfChunk(c) == (c - 1) * ChunkSize(NFiles, threads_no) + 1
LastOfChunk(i) == i = NFiles \/ i % ChunkSize(NFiles, threads_no) = 0

\* a corpus of n files as get_files_from_directory leaves it
Corpus(n) == [i \in 1..n |-> [key |-> <<"dir", i>>, value |-> 1]]

DriverInit ==
    /\ main_pc = "ready"
    /\ \E n \in 0..MaxFiles :
         /\ FILES = Corpus(n)
         /\ disk = [k \in {<<"dir", i>> : i \in 1..n} |-> 1]
         /\ fstat = [i \in 1..n |-> "pending"]
         /\ invoked = [i \in 1..n |-> 0]
    /\ size_mb = 0
    /\ ratio = 0
    /\ xfer = NoXfer
    /\ mode \in Modes
    /\ direction \in Directions
    /\ threads_no \in 1..MaxPool
    /\ mode # "pool" => threads_no = 1
    /\ dpc = "entry"
    /\ idx = 0
    /\ pool_next = 0
    /\ worker = [w \in 1..threads_no |-> 0]
    /\ number_left = 0
    /\ pool_success = TRUE
    /\ now = 0
    /\ global_start_time = 0
    /\ global_end_time = <<>>
    /\ start_time = 0
    /\ elapsed_sum = 0
    /\ printed_total = <<>>

\* time.perf_counter() advances
Tick ==
    /\ dpc \notin {"done", "raised"}
    /\ now < MaxClock
    /\ now' = now + 1
    /\ UNCHANGED <<mode, direction, threads_no, dpc, idx, fstat, invoked,
                   pool_next, worker, number_left, pool_success,
                   global_start_time, global_end_time, start_time,
                   elapsed_sum, printed_total>>
    /\ UNCHANGED <<trackerVars, mainVars>>

\* the strategy function running for file i returns
UploadFunctionReturns(i) ==
    /\ i \in 1..NFiles
    /\ fstat[i] = "running"
    /\ fstat' = [fstat EXCEPT ![i] = "returned"]
    /\ UNCHANGED <<mode, direction, threads_no, dpc, idx, invoked, pool_next,
                   worker, number_left, pool_success, now, global_start_time,
                   global_end_time, start_time, elapsed_sum, printed_total>>
    /\ UNCHANGED <<trackerVars, mainVars>>

\* the strategy function running for file i raises
UploadFunctionRaises(i) ==
    /\ i \in 1..NFiles
    /\ fstat[i] = "running"
    /\ fstat' = [fstat EXCEPT ![i] = "raised"]
    /\ UNCHANGED <<mode, direction, threads_no, dpc, idx, invoked, pool_next,
                   worker, number_left, pool_success, now, global_start_time,
                   global_end_time, start_time, elapsed_sum, printed_total>>
    /\ UNCHANGED <<trackerVars, mainVars>>

\* ---- serial: client.py:42-51 and 80-89
\* line 43
SerialBegin ==
    /\ dpc = "entry" /\ mode = "serial"
    /\ global_start_time' = now
    /\ idx' = 1
    /\ dpc' = "loop"
    /\ UNCHANGED <<mode, direction, threads_no, fstat, invoked, pool_next,
                   worker, number_left, pool_success, now, global_end_time,
                   start_time, elapsed_sum, printed_total>>
    /\ UNCHANGED <<trackerVars, mainVars>>

\* line 45
PerFileStartGlobal == global_start_time

PerFileStart == now

\* lines 44-46: the next file's start timestamp and strategy call, or
\* line 49 once the loop is exhausted
SerialLoop ==
    /\ dpc = "loop" /\ mode = "serial"
    /\ IF idx <= NFiles
       THEN /\ start_time' = PerFileStart
            /\ fstat' = [fstat EXCEPT ![idx] = "running"]
            /\ invoked' = [invoked EXCEPT ![idx] = @ + 1]
            /\ dpc' = "call"
            /\ UNCHANGED global_end_time
       ELSE /\ global_end_time' = <<now>>
            /\ dpc' = "print"
            /\ UNCHANGED <<start_time, fstat, invoked>>
    /\ UNCHANGED <<mode, direction, threads_no, idx, pool_next, worker,
                   number_left, pool_success, now, global_start_time,
                   elapsed_sum, printed_total>>
    /\ UNCHANGED <<trackerVars, mainVars>>

\* lines 47-48: end timestamp and the per-file line
SerialAfterCall ==
    /\ dpc = "call" /\ mode = "serial"
    /\ fstat[idx] = "returned"
    /\ elapsed_sum' = elapsed_sum + (now - start_time)
    /\ idx' = idx + 1
    /\ dpc' = "loop"
    /\ UNCHANGED <<mode, direction, threads_no, fstat, invoked, pool_next,
                   worker, number_left, pool_success, now, global_start_time,
                   global_end_time, start_time, printed_total>>
    /\ UNCHANGED <<trackerVars, mainVars>>

\* line 46 raises: nothing catches it, the exception leaves the driver
SerialContinueAfterError ==
    /\ dpc = "call" /\ mode = "serial"
    /\ fstat[idx] = "raised"
    /\ idx' = idx + 1
    /\ dpc' = "loop"
    /\ UNCHANGED <<mode, direction, threads_no, fstat, invoked, pool_next,
                   worker, number_left, pool_success, now, global_start_time,
                   global_end_time, start_time, elapsed_sum, printed_total>>
    /\ UNCHANGED <<trackerVars, mainVars>>

SerialPropagate ==
    /\ dpc = "call" /\ mode = "serial"
    /\ fstat[idx] = "raised"
    /\ dpc' = "raised"
    /\ UNCHANGED <<mode, direction, threads_no, idx, fstat, invoked, pool_next,
                   worker, number_left, pool_success, now, global_start_time,
                   global_end_time, start_time, elapsed_sum, printed_total>>
    /\ UNCHANGED <<trackerVars, mainVars>>

\* ---- one thread per file: client.py:64-77 and 103-116
\* lines 65-69
ThreadBegin ==
    /\ dpc = "entry" /\ mode = "thread"
    /\ global_start_time' = now
    /\ idx' = 1
    /\ dpc' = "start"
    /\ UNCHANGED <<mode, direction, threads_no, fstat, invoked, pool_next,
                   worker, number_left, pool_success, now, global_end_time,
                   start_time, elapsed_sum, printed_total>>
    /\ UNCHANGED <<trackerVars, mainVars>>

\* lines 70-71: t.start() runs the strategy on a new thread
ThreadStart ==
    /\ dpc = "start" /\ mode = "thread"
    /\ IF idx <= NFiles
       THEN /\ fstat' = [fstat EXCEPT ![idx] = "running"]
            /\ invoked' = [invoked EXCEPT ![idx] = @ + 1]
            /\ idx' = idx + 1
            /\ dpc' = "start"
       ELSE /\ idx' = 1
            /\ dpc' = "join"
            /\ UNCHANGED <<fstat, invoked>>
    /\ UNCHANGED <<mode, direction, threads_no, pool_next, worker, number_left,
                   pool_success, now, global_start_time, global_end_time,
                   start_time, elapsed_sum, printed_total>>
    /\ UNCHANGED <<trackerVars, mainVars>>

\* line 74: t.join() returns once the thread has ended, by return or by an
\* exception (which threading reports on stderr and does not re-raise)
JoinNoWait(i) == TRUE

JoinReturns(i) == Finished(i)

\* lines 73-74
ThreadJoin ==
    /\ dpc = "join" /\ mode = "thread"
    /\ idx <= NFiles
    /\ JoinReturns(idx)
    /\ idx' = idx + 1
    /\ UNCHANGED <<mode, direction, threads_no, dpc, fstat, invoked, pool_next,
                   worker, number_left, pool_success, now, global_start_time,
                   global_end_time, start_time, elapsed_sum, printed_total>>
    /\ UNCHANGED <<trackerVars, mainVars>>

\* line 75
ThreadEnd ==
    /\ dpc = "join" /\ mode = "thread"
    /\ idx > NFiles
    /\ global_end_time' = <<now>>
    /\ dpc' = "print"
    /\ UNCHANGED <<mode, direction, threads_no, idx, fstat, invoked, pool_next,
                   worker, number_left, pool_success, now, global_start_time,
                   start_time, elapsed_sum, printed_total>>
    /\ UNCHANGED <<trackerVars, mainVars>>

\* ---- thread pool: client.py:53-62 and 92-101
\* lines 54-59: the pool, the argument list, the start timestamp and the
\* submission of the chunks by starmap
PoolBegin ==
    /\ dpc = "entry" /\ mode = "pool"
    /\ global_start_time' = now
    /\ number_left' = NumChunks(NFiles, threads_no)
    /\ pool_next' = 1
    /\ pool_success' = TRUE
    /\ dpc' = "starmap"
    /\ UNCHANGED <<mode, direction, threads_no, idx, fstat, invoked, worker,
                   now, global_end_time, start_time, elapsed_sum, printed_total>>
    /\ UNCHANGED <<trackerVars, mainVars>>

\* an idle pool thread takes the next chunk and calls the strategy for its
\* first file
WorkerTake(w) ==
    /\ dpc = "starmap"
    /\ w \in DOMAIN worker
    /\ worker[w] = 0
    /\ pool_next <= NumChunks(NFiles, threads_no)
    /\ LET i == FirstOfChunk(pool_next)
       IN /\ worker' = [worker EXCEPT ![w] = i]
          /\ fstat' = [fstat EXCEPT ![i] = "running"]
          /\ invoked' = [invoked EXCEPT ![i] = @ + 1]
    /\ pool_next' = pool_next + 1
    /\ UNCHANGED <<mode, direction, threads_no, dpc, idx, number_left,
                   pool_success, now, global_start_time, global_end_time,
                   start_time, elapsed_sum, printed_total>>
    /\ UNCHANGED <<trackerVars, mainVars>>

\* starmapstar: list(itertools.starmap(func, chunk)) goes on to the next file
\* of the chunk, or the chunk is done (MapResult._set with success)
WorkerNext(w) ==
    /\ dpc = "starmap"
    /\ w \in DOMAIN worker
    /\ worker[w] # 0
    /\ fstat[worker[w]] = "returned"
    /\ IF LastOfChunk(worker[w])
       THEN /\ worker' = [worker EXCEPT ![w] = 0]
            /\ number_left' = number_left - 1
            /\ UNCHANGED <<fstat, invoked>>
       ELSE /\ worker' = [worker EXCEPT ![w] = @ + 1]
            /\ fstat' = [fstat EXCEPT ![worker[w] + 1] = "running"]
            /\ invoked' = [invoked EXCEPT ![worker[w] + 1] = @ + 1]
            /\ UNCHANGED number_left
    /\ UNCHANGED <<mode, direction, threads_no, dpc, idx, pool_next,
                   pool_success, now, global_start_time, global_end_time,
                   start_time, elapsed_sum, printed_total>>
    /\ UNCHANGED <<trackerVars, mainVars>>

\* the strategy raised: the exception ends the chunk (MapResult._set with
\* failure), the files left in the chunk are not called
WorkerFail(w) ==
    /\ dpc = "starmap"
    /\ w \in DOMAIN worker
    /\ worker[w] # 0
    /\ fstat[worker[w]] = "raised"
    /\ worker' = [worker EXCEPT ![w] = 0]
    /\ number_left' = number_left - 1
    /\ pool_success' = FALSE
    /\ UNCHANGED <<mode, direction, threads_no, dpc, idx, fstat, invoked,
                   pool_next, now, global_start_time, global_end_time,
                   start_time, elapsed_sum, printed_total>>
    /\ UNCHANGED <<trackerVars, mainVars>>

\* lines 59-60: starmap returns once every chunk is done, and line 60 runs
PoolReturn ==
    /\ dpc = "starmap"
    /\ number_left = 0
    /\ pool_success
    /\ global_end_time' = <<now>>
    /\ dpc' = "print"
    /\ UNCHANGED <<mode, direction, threads_no, idx, fstat, invoked, pool_next,
                   worker, number_left, pool_success, now, global_start_time,
                   start_time, elapsed_sum, printed_total>>
    /\ UNCHANGED <<trackerVars, mainVars>>

\* line 59: starmap re-raises the first exception once every chunk is done
PoolRaiseSwallowed ==
    /\ dpc = "starmap"
    /\ number_left = 0
    /\ ~pool_success
    /\ global_end_time' = <<now>>
    /\ dpc' = "print"
    /\ UNCHANGED <<mode, direction, threads_no, idx, fstat, invoked, pool_next,
                   worker, number_left, pool_success, now, global_start_time,
                   start_time, elapsed_sum, printed_total>>
    /\ UNCHANGED <<trackerVars, mainVars>>

PoolRaise ==
    /\ dpc = "starmap"
    /\ number_left = 0
    /\ ~pool_success
    /\ dpc' = "raised"
    /\ UNCHANGED <<mode, direction, threads_no, idx, fstat, invoked, pool_next,
                   worker, number_left, pool_success, now, global_start_time,
                   global_end_time, start_time, elapsed_sum, printed_total>>
    /\ UNCHANGED <<trackerVars, mainVars>>

\* lines 51, 62, 77 (89, 101, 116): the total elapsed time line
PrintTotal ==
    /\ dpc = "print"
    /\ printed_total' = <<global_end_time[1] - global_start_time>>
    /\ dpc' = "done"
    /\ UNCHANGED <<mode, direction, threads_no, idx, fstat, invoked, pool_next,
                   worker, number_left, pool_success, now, global_start_time,
                   global_end_time, start_time, elapsed_sum>>
    /\ UNCHANGED <<trackerVars, mainVars>>

DriverNext ==
    \/ Tick
    \/ \E i \in 1..MaxFiles : UploadFunctionReturns(i)
    \/ \E i \in 1..MaxFiles : UploadFunctionRaises(i)
    \/ SerialBegin
    \/ SerialLoop
    \/ SerialAfterCall
    \/ SerialPropagate
    \/ ThreadBegin
    \/ ThreadStart
    \/ ThreadJoin
    \/ ThreadEnd
    \/ PoolBegin
    \/ \E w \in 1..MaxPool : WorkerTake(w)
    \/ \E w \in 1..MaxPool : WorkerNext(w)
    \/ \E w \in 1..MaxPool : WorkerFail(w)
    \/ PoolReturn
    \/ PoolRaise
    \/ PrintTotal

(***************************************************************************)
(* Specifications                                                          *)
(***************************************************************************)
TrackerIdle ==
    /\ target_size = 0 /\ total_transferred = 0 /\ thread_info = NoInfo
    /\ lock = 0 /\ tpc = <<>> /\ arg = <<>> /\ tmp = <<>> /\ raised = <<>>
    /\ stdout = <<>> /\ sent = <<>> /\ ncalls = <<>>

DriverIdle ==
    /\ mode = "none" /\ direction = "none" /\ threads_no = 0 /\ dpc = "none"
    /\ idx = 0 /\ fstat = <<>> /\ invoked = <<>> /\ pool_next = 0
    /\ worker = <<>> /\ number_left = 0 /\ pool_success = TRUE /\ now = 0
    /\ global_start_time = 0 /\ global_end_time = <<>> /\ start_time = 0
    /\ elapsed_sum = 0 /\ printed_total = <<>>

MainIdle ==
    /\ main_pc = "none" /\ FILES = <<>> /\ disk = NoInfo /\ size_mb = 0
    /\ ratio = 0 /\ xfer = NoXfer

Init == MainInit /\ TrackerIdle /\ DriverIdle
Next == MainNext
Spec == Init /\ [][Next]_vars
FairSpec == Spec /\ WF_vars(Next)

TrackerSpecInit == TrackerInit /\ MainIdle /\ DriverIdle
TrackerSpec == TrackerSpecInit /\ [][TrackerNext]_vars

DriverSpecInit == DriverInit /\ TrackerIdle
DriverSpec == DriverSpecInit /\ [][DriverNext]_vars


(***************************************************************************)
(* Properties                                                              *)
(***************************************************************************)
InLock == {"read_total", "write_total", "info", "progress", "exit"}

NoCallInLock == \A t \in Threads : tpc[t] \notin InLock

AllCallsReturned == \A t \in Threads : tpc[t] = "idle"

\* C1: whenever no record call is inside the lock, _total_transferred equals
\* the sum of the values of thread_info.
C1_TotalEqualsSum ==
    NoCallInLock => total_transferred = SumValues(thread_info)

C1_Witness ==
    /\ NoCallInLock
    /\ Cardinality(DOMAIN thread_info) >= 2
    /\ total_transferred = MB + 1
    /\ \E t \in Threads : tpc[t] = "acquire"

\* C2: once every concurrent record call has returned, thread_info[w] is
\* exactly the sum of the amounts worker w recorded, and a worker that made no
\* call has no entry.
C2_PerWorkerExact ==
    AllCallsReturned =>
        \A w \in Threads :
            IF ncalls[w] = 0
            THEN w \notin DOMAIN thread_info
            ELSE w \in DOMAIN thread_info /\ thread_info[w] = sent[w]

C2_Witness ==
    /\ AllCallsReturned
    /\ ncalls[1] = 2 /\ ncalls[2] = 1
    /\ thread_info[1] = MB + 1
    /\ thread_info[2] = MB

\* C10: no record call raises, whatever target size the tracker was built
\* with.
C10_RecordNeverRaises == \A t \in Threads : ~raised[t]

GeneratedCorpus ==
    /\ Len(FILES) = 8
    /\ \A k \in 1..8 :
         /\ FILES[k] = [key |-> GeneratedName(2 ^ (k - 1)), value |-> 2 ^ (k - 1)]
         /\ GeneratedName(2 ^ (k - 1)) \in DOMAIN disk
         /\ disk[GeneratedName(2 ^ (k - 1))] = (2 ^ (k - 1)) * MB

\* C3: generate_files terminates, and on return FILES holds the 8 entries
\* 1, 2, 4, ..., 128 MB, each file written with size * 2^20 bytes.
C3_GenerateFilesTerminates ==
    (main_pc = "gen_while") ~> (main_pc = "ready" /\ GeneratedCorpus)

\* C4: the mapping a strategy returns on success accounts for every byte the
\* client reported during that transfer.
C4_ReturnedInfoAccountsForBytes ==
    xfer.status = "returned" => SumValues(xfer.info) = xfer.reported

\* C8: the high-threshold strategies pass a multipart threshold strictly
\* greater than the actual size in bytes of the file they transfer.
C8_ThresholdAboveFileSize ==
    (xfer.status # "none" /\ xfer.strategy \in HighThresholdStrategies) =>
        xfer.config.multipart_threshold > ActualSize(xfer)

SomeRaised == \E i \in 1..NFiles : fstat[i] = "raised"

DriverEnded == dpc \in {"done", "raised"}

EndTaken == Len(global_end_time) = 1

TotalPrinted == Len(printed_total) = 1

\* C5 as stated: in every mode, a driver that has ended after a failing
\* transfer has taken the end timestamp and printed the total line.
C5_TotalPrintedDespiteFailure ==
    (DriverEnded /\ SomeRaised) => (EndTaken /\ TotalPrinted)

\* C5 amended: that holds in the thread-per-file mode; in the serial and the
\* pool mode the error leaves the driver before the end timestamp is taken
\* and no total line is printed.
C5_TotalPrintedOnlyInThreadMode ==
    (DriverEnded /\ SomeRaised) =>
        IF mode = "thread"
        THEN dpc = "done" /\ EndTaken /\ TotalPrinted
        ELSE dpc = "raised" /\ ~EndTaken /\ ~TotalPrinted

C5_Witness ==
    /\ mode = "thread" /\ dpc = "done" /\ TotalPrinted
    /\ NFiles >= 2
    /\ fstat[1] = "raised" /\ fstat[2] = "returned"

SerialAbortsOnFirstError ==
    mode = "serial" =>
        \A i, j \in 1..NFiles :
            (i < j /\ fstat[i] = "raised") => invoked[j] = 0

\* a file that follows a failing file in the same starmap chunk
SkippedInChunk(i) ==
    /\ mode = "pool"
    /\ \E j \in 1..NFiles : j < i /\ ChunkOf(j) = ChunkOf(i) /\ fstat[j] = "raised"

\* C6 as stated: serial mode makes no call after the first failure; in the
\* thread-per-file and pool modes, for any corpus and pool size, every file's
\* strategy call is started and runs to completion despite a failure.
C6_FailureSkipsNothingWhenConcurrent ==
    /\ SerialAbortsOnFirstError
    /\ (mode \in {"thread", "pool"} /\ DriverEnded /\ SomeRaised) =>
          \A i \in 1..NFiles : invoked[i] = 1 /\ Finished(i)

\* C6 amended: in the pool mode the files that follow a failing file in its
\* own chunk of ceil(n / (4 * pool size)) files are never called; every other
\* file is called once and runs to completion.
C6_FailureSkipsOnlyRestOfChunk ==
    /\ SerialAbortsOnFirstError
    /\ (mode \in {"thread", "pool"} /\ DriverEnded /\ SomeRaised) =>
          \A i \in 1..NFiles :
              IF SkippedInChunk(i)
              THEN invoked[i] = 0 /\ fstat[i] = "pending"
              ELSE invoked[i] = 1 /\ Finished(i)

C6_Witness ==
    /\ mode = "pool" /\ threads_no = 1 /\ NFiles = 5 /\ dpc = "raised"
    /\ fstat[1] = "raised" /\ invoked[2] = 0
    /\ fstat[3] = "returned" /\ fstat[4] = "returned" /\ fstat[5] = "returned"

\* C7: in the thread-per-file and pool modes, once the end timestamp is
\* taken the strategy has been called exactly once for every file and every
\* call has ended.
C7_NoDroppedWork ==
    (mode \in {"thread", "pool"} /\ EndTaken) =>
        \A i \in 1..NFiles : invoked[i] = 1 /\ Finished(i)

C7_Witness ==
    /\ mode = "pool" /\ threads_no = 2 /\ NFiles = 5 /\ EndTaken
    /\ \A i \in 1..NFiles : fstat[i] = "returned"

\* C9: in serial mode the total elapsed time printed is at least the sum of
\* the per-file elapsed times printed inside the loop.
C9_TotalAtLeastSumOfFiles ==
    (mode = "serial" /\ TotalPrinted) => printed_total[1] >= elapsed_sum

C9_Witness ==
    /\ mode = "serial" /\ TotalPrinted /\ NFiles >= 2
    /\ elapsed_sum >= 2
    /\ printed_total[1] > elapsed_sum

====
